---- MODULE Spec2Model ----
(***************************************************************************)
(* Model of trolley.py: the Streamlit script that reads a parts manifest,  *)
(* derives a trolley id, groups the rows and renders one parts table per   *)
(* group with TrolleyPDF.                                                  *)
(*                                                                         *)
(* A Python string is a sequence of one-character strings, so that         *)
(* concatenation, comparison and str() are computed and not assumed.       *)
(* A cell of the spreadsheet is a record [t, n, f, s]:                     *)
(*   t = "nan"    a missing value (NaN)                                    *)
(*   t = "int"    the integer n                                            *)
(*   t = "float"  the float n.f (one fractional digit)                     *)
(*   t = "str"    the string s                                             *)
(* A DataFrame is [cols, rows]; a row is [idx, cells], idx being the       *)
(* DataFrame index label and cells a function from the column names.       *)
(***************************************************************************)
EXTENDS Integers, Sequences, FiniteSets, TLC

\* Largest number of data rows in an uploaded sheet.
MaxRows == 3

\* Number of data rows of a parts table that fit on one page below the
\* repeated header row.
RowsPerPage == 2

----------------------------------------------------------------------------
(* Python strings *)

\* Characters of the model in increasing code-point order.
Alphabet == <<"-", ".", "0", "1", "2", "3", "4", "5", "6", "7", "8", "9",
              "A", "B", "D", "L", "M", "N", "P", "R", "T", "U",
              "a", "k", "n", "o", "w">>

Ord(c) == CHOOSE i \in DOMAIN Alphabet : Alphabet[i] = c

\* Python's < on str: lexicographic by code point.
RECURSIVE StrLess(_, _)
StrLess(a, b) ==
    IF a = <<>> THEN b # <<>>
    ELSE IF b = <<>> THEN FALSE
    ELSE IF a[1] = b[1] THEN StrLess(Tail(a), Tail(b))
    ELSE Ord(a[1]) < Ord(b[1])

DigitChar == <<"0", "1", "2", "3", "4", "5", "6", "7", "8", "9">>

\* str(n) of a non-negative int.
RECURSIVE Digits(_)
Digits(n) ==
    IF n < 10 THEN <<DigitChar[n + 1]>>
    ELSE Digits(n \div 10) \o <<DigitChar[(n % 10) + 1]>>

----------------------------------------------------------------------------
(* Cells *)

NaN == [t |-> "nan", n |-> 0, f |-> 0, s |-> <<>>]
PyInt(n) == [t |-> "int", n |-> n, f |-> 0, s |-> <<>>]
PyFloat(n, f) == [t |-> "float", n |-> n, f |-> f, s |-> <<>>]
Str(s) == [t |-> "str", n |-> 0, f |-> 0, s |-> s]

\* str(value), also what Series.astype(str) yields for each element.
PyStr(c) ==
    CASE c.t = "str" -> c.s
      [] c.t = "int" -> Digits(c.n)
      [] c.t = "float" -> Digits(c.n) \o <<".">> \o Digits(c.f)
      [] OTHER -> <<"n", "a", "n">>

----------------------------------------------------------------------------
(* DataFrames *)

\* df[col]: the Series of the column, one cell per row.
column(df, col) == [i \in DOMAIN df.rows |-> df.rows[i].cells[col]]

\* A scalar broadcast to a Series as long as df.
broadcast(df, value) == [i \in DOMAIN df.rows |-> value]

\* series.astype(str)
astype_str(series) == [i \in DOMAIN series |-> Str(PyStr(series[i]))]

\* a + b of two Series of strings: element-wise concatenation.
str_add(a, b) == [i \in DOMAIN a |-> Str(a[i].s \o b[i].s)]

\* df[col] = series: adds or overwrites a column.
assign(df, col, series) ==
    [cols |-> df.cols \cup {col},
     rows |-> [i \in DOMAIN df.rows |->
                 [idx |-> df.rows[i].idx,
                  cells |-> [c \in df.cols \cup {col} |->
                               IF c = col THEN series[i]
                               ELSE df.rows[i].cells[c]]]]]

\* Faulty variant of fillna: the missing values are left in place.
fillna_skipped(df) == df

\* df.fillna("", inplace=True): every missing value becomes "".
fillna(df) ==
    [cols |-> df.cols,
     rows |-> [i \in DOMAIN df.rows |->
                 [idx |-> df.rows[i].idx,
                  cells |-> [c \in df.cols |->
                               IF df.rows[i].cells[c].t = "nan" THEN Str(<<>>)
                               ELSE df.rows[i].cells[c]]]]]

\* Order of two key cells in sort_values and groupby: strings compare as
\* Python strings, a missing value sorts last.
CellLess(a, b) ==
    /\ a.t # "nan"
    /\ \/ b.t = "nan"
       \/ StrLess(PyStr(a), PyStr(b))

\* Lexicographic order of two tuples of key cells.
RECURSIVE TupleLess(_, _)
TupleLess(a, b) ==
    IF a = <<>> \/ b = <<>> THEN FALSE
    ELSE IF a[1] = b[1] THEN TupleLess(Tail(a), Tail(b))
    ELSE CellLess(a[1], b[1])

\* The tuple of a row's values in the columns by.
KeyOf(row, by) == [k \in DOMAIN by |-> row.cells[by[k]]]

\* Stable insertion of a row into rows already sorted by the columns by.
RECURSIVE InsertSorted(_, _, _)
InsertSorted(row, sorted, by) ==
    IF sorted = <<>> THEN <<row>>
    ELSE IF TupleLess(KeyOf(row, by), KeyOf(Head(sorted), by))
         THEN <<row>> \o sorted
         ELSE <<Head(sorted)>> \o InsertSorted(row, Tail(sorted), by)

RECURSIVE SortRows(_, _)
SortRows(rows, by) ==
    IF rows = <<>> THEN <<>>
    ELSE InsertSorted(rows[Len(rows)],
                      SortRows(SubSeq(rows, 1, Len(rows) - 1), by), by)

\* df.sort_values(by=[...], inplace=True): a stable sort of the rows.
sort_values(df, by) == [cols |-> df.cols, rows |-> SortRows(df.rows, by)]

\* The keys of df.groupby(by): the distinct key tuples of the rows, a row
\* with a missing value in a key column being left out (dropna=True).
GroupKeys(df, by) ==
    {KeyOf(df.rows[i], by) : i \in
        {j \in DOMAIN df.rows : \A k \in DOMAIN by :
                                   df.rows[j].cells[by[k]].t # "nan"}}

\* The keys in increasing order (sort=True).
RECURSIVE SortKeys(_)
SortKeys(K) ==
    IF K = {} THEN <<>>
    ELSE LET m == CHOOSE x \in K : \A y \in K : ~TupleLess(y, x)
         IN <<m>> \o SortKeys(K \ {m})

\* The rows of df whose key is key, in the order they have in df.
RECURSIVE SelectRows(_, _, _)
SelectRows(rows, by, key) ==
    IF rows = <<>> THEN <<>>
    ELSE (IF KeyOf(Head(rows), by) = key THEN <<Head(rows)>> ELSE <<>>)
         \o SelectRows(Tail(rows), by, key)

\* for name, group in df.groupby(by): the (name, group) pairs in order.
groupby(df, by) ==
    LET keys == SortKeys(GroupKeys(df, by))
    IN [g \in DOMAIN keys |->
          [name |-> keys[g],
           group |-> [cols |-> df.cols,
                      rows |-> SelectRows(df.rows, by, keys[g])]]]

----------------------------------------------------------------------------
(* The spreadsheet and pd.read_excel *)

\* The value the Excel reader returns for a cell: a number without a
\* fractional part is an integer, whatever way the workbook stores it.
convert_cell(c) == IF c.t = "float" /\ c.f = 0 THEN PyInt(c.n) ELSE c

\* The dtype pandas infers for a numeric column: int64 when every cell is
\* an integer, float64 as soon as one cell has a fractional part or is
\* missing.
IsFloatColumn(rows, c) ==
    /\ \A i \in DOMAIN rows :
          convert_cell(rows[i][c]).t \in {"int", "float", "nan"}
    /\ \E i \in DOMAIN rows : convert_cell(rows[i][c]).t \in {"float", "nan"}

\* pd.read_excel(uploaded_file): the sheet as a DataFrame with a RangeIndex,
\* the integers of a float64 column held as floats.
read_excel(file) ==
    [cols |-> file.cols,
     rows |-> [i \in DOMAIN file.rows |->
                 [idx |-> i - 1,
                  cells |-> [c \in file.cols |->
                     LET v == convert_cell(file.rows[i][c])
                     IN IF v.t = "int" /\ IsFloatColumn(file.rows, c)
                        THEN PyFloat(v.n, 0)
                        ELSE v]]]]

----------------------------------------------------------------------------
(* Data preprocessing of the script *)

\* Faulty variant of required_cols: an optional column is demanded too.
required_cols_with_max_size ==
    <<"STATION NO", "BUS MODEL", "PARTNO", "PART DESCRIPTION", "Qty / Veh",
      "LOCATION", "Max Size">>

required_cols == <<"STATION NO", "BUS MODEL", "PARTNO", "PART DESCRIPTION",
                   "Qty / Veh", "LOCATION">>

\* [c for c in required_cols if c not in df.columns]
missing_cols(df) == SelectSeq(required_cols, LAMBDA c : c \notin df.cols)

UnknownLiteral == <<"U", "n", "k", "n", "o", "w", "n">>

\* Faulty variant of trolley_fallback: the trolley id defaults to the empty
\* string, as the station name does.
trolley_fallback_blank(df) ==
    IF "Trolley No" \in df.cols
    THEN assign(df, "TROLLEY_ID", column(df, "Trolley No"))
    ELSE assign(df, "TROLLEY_ID", broadcast(df, Str(<<>>)))

\* The except KeyError branch: copy 'Trolley No' or use the literal.
trolley_fallback(df) ==
    IF "Trolley No" \in df.cols
    THEN assign(df, "TROLLEY_ID", column(df, "Trolley No"))
    ELSE assign(df, "TROLLEY_ID", broadcast(df, Str(UnknownLiteral)))

\* df['RACK'] + "-" + df['R1'] + df['R2']
trolley_concat(df) ==
    str_add(str_add(str_add(column(df, "RACK"), broadcast(df, Str(<<"-">>))),
                    column(df, "R1")),
            column(df, "R2"))

\* The try block: each assignment is kept when a later lookup raises
\* KeyError for an absent rack column.
construct_trolley(df) ==
    IF "RACK" \notin df.cols THEN trolley_fallback(df)
    ELSE LET d1 == assign(df, "RACK", astype_str(column(df, "RACK")))
         IN IF "RACK NO (1st digit)" \notin d1.cols THEN trolley_fallback(d1)
            ELSE LET d2 == assign(d1, "R1",
                              astype_str(column(d1, "RACK NO (1st digit)")))
                 IN IF "RACK NO (2nd digit)" \notin d2.cols
                    THEN trolley_fallback(d2)
                    ELSE LET d3 == assign(d2, "R2",
                                 astype_str(column(d2, "RACK NO (2nd digit)")))
                         IN assign(d3, "TROLLEY_ID", trolley_concat(d3))

\* if 'STATION NAME' not in df.columns: df['STATION NAME'] = ""
handle_station_name(df) ==
    IF "STATION NAME" \notin df.cols
    THEN assign(df, "STATION NAME", broadcast(df, Str(<<>>)))
    ELSE df

sort_cols == <<"STATION NO", "TROLLEY_ID">>

\* Faulty variant of group_cols: the model is placed before the station name.
group_cols_model_first ==
    <<"STATION NO", "TROLLEY_ID", "BUS MODEL", "STATION NAME">>

group_cols == <<"STATION NO", "TROLLEY_ID", "STATION NAME", "BUS MODEL">>

\* Steps 2 to 4 of the preprocessing, then the sort of step 5.
preprocess(df) ==
    sort_values(fillna(handle_station_name(construct_trolley(df))), sort_cols)

\* grouped[name] = group for every group, in iteration order.
build_grouped(df) == groupby(df, group_cols)

----------------------------------------------------------------------------
(* TrolleyPDF *)

\* TrolleyPDF.__init__: the logo stream and the empty page context.
TrolleyPDF(top_logo_byte_stream) ==
    [top_logo_stream |-> top_logo_byte_stream,
     current_station_name |-> <<>>,
     current_model |-> <<>>,
     current_station_no |-> <<>>,
     current_trolley_no |-> <<>>]

\* header_footer: what is drawn on a page from the object's fields at the
\* time of the call: the top-right logo when there is a stream, and the
\* values of the four cells of the info block.
header_footer(self) ==
    [logo |-> self.top_logo_stream,
     station_name |-> self.current_station_name,
     station_no |-> self.current_station_no,
     model |-> self.current_model,
     trolley_no |-> self.current_trolley_no]

headers == <<"S. No", "PART NO", "DESCRIPTION", "Qty/ Veh", "MAX SIZE",
             "QTY / TROLLEY", "LOCATION">>

\* str(row.get(col, ''))
row_get(row, col) ==
    IF col \in DOMAIN row.cells THEN PyStr(row.cells[col]) ELSE <<>>

\* The data rows appended for the rows of a group, row_idx being the serial
\* of the first of them and growing by one per row.
RECURSIVE table_rows(_, _)
table_rows(rows, row_idx) ==
    IF rows = <<>> THEN <<>>
    ELSE << <<Digits(row_idx),
              row_get(Head(rows), "PARTNO"),
              row_get(Head(rows), "PART DESCRIPTION"),
              row_get(Head(rows), "Qty / Veh"),
              row_get(Head(rows), "Max Size"),
              row_get(Head(rows), "Qty /Trolley"),
              row_get(Head(rows), "LOCATION")>> >>
         \o table_rows(Tail(rows), row_idx + 1)

\* Faulty variant of table_data: row_idx starts at 0.
table_data_from_zero(df_group) ==
    [headers |-> headers, rows |-> table_rows(df_group.rows, 0)]

\* table_data of one group: the header row, then the data rows from 1.
table_data(df_group) ==
    [headers |-> headers, rows |-> table_rows(df_group.rows, 1)]

\* The page context after the assignments at the top of the loop body.
update_context(self, group_key) ==
    [self EXCEPT !.current_station_no = PyStr(group_key[1]),
                 !.current_trolley_no = PyStr(group_key[2]),
                 !.current_station_name = PyStr(group_key[3]),
                 !.current_model = PyStr(group_key[4])]

\* The loop of create_pdf over grouped_data.items() from group g on:
\* the object and the list of elements when the loop ends. Every table is
\* followed by a PageBreak, so element g is the table of group g.
RECURSIVE create_pdf_loop(_, _, _, _)
create_pdf_loop(self, elements, grouped_data, g) ==
    IF g > Len(grouped_data) THEN [self |-> self, elements |-> elements]
    ELSE create_pdf_loop(update_context(self, grouped_data[g].name),
                         Append(elements, table_data(grouped_data[g].group)),
                         grouped_data, g + 1)

\* The rows of a table split over pages of RowsPerPage data rows.
RECURSIVE split_rows(_)
split_rows(rows) ==
    IF Len(rows) <= RowsPerPage THEN <<rows>>
    ELSE <<SubSeq(rows, 1, RowsPerPage)>>
         \o split_rows(SubSeq(rows, RowsPerPage + 1, Len(rows)))

\* doc.build(elements, onFirstPage=header_footer, onLaterPages=
\* header_footer): the pages of the document. A page holds the rows of one
\* table (of element e) under the repeated header row, and what
\* header_footer draws when the page is started, which is during build.
RECURSIVE build(_, _, _)
build(self, elements, e) ==
    IF e > Len(elements) THEN <<>>
    ELSE LET parts == split_rows(elements[e].rows)
         IN [p \in DOMAIN parts |->
               [element |-> e,
                header |-> header_footer(self),
                table |-> [headers |-> elements[e].headers,
                           rows |-> parts[p]]]]
            \o build(self, elements, e + 1)

\* create_pdf: the loop, then the build.
create_pdf(self, grouped_data) ==
    LET end == create_pdf_loop(self, <<>>, grouped_data, 1)
    IN [built |-> TRUE,
        elements |-> end.elements,
        pages |-> build(end.self, end.elements, 1)]

----------------------------------------------------------------------------
(* The sheets a user may upload *)

RackCols == {"RACK", "RACK NO (1st digit)", "RACK NO (2nd digit)"}

\* The columns every production sheet is expected to carry.
BaseCols == {"STATION NO", "BUS MODEL", "PARTNO", "PART DESCRIPTION",
             "Qty / Veh", "LOCATION"}

\* The column sets of the uploaded sheets.
Schemas ==
    { BaseCols \cup RackCols \cup {"STATION NAME", "Max Size", "Qty /Trolley"},
      BaseCols \cup {"Trolley No", "STATION NAME"},
      BaseCols,
      BaseCols \cup {"RACK", "RACK NO (1st digit)", "Max Size"},
      BaseCols \cup {"RACK", "Trolley No"},
      (BaseCols \ {"LOCATION"}) \cup RackCols \cup {"STATION NAME"},
      (BaseCols \ {"Qty / Veh"}) \cup {"STATION NAME"},
      BaseCols \ {"PARTNO", "LOCATION"} }

SheetCols == UNION Schemas

\* The lines a sheet is made of, each giving a cell for every column.
RowPool ==
    << [c \in SheetCols |->
          CASE c = "STATION NO" -> Str(<<"1">>)
            [] c = "STATION NAME" -> Str(<<"A">>)
            [] c = "BUS MODEL" -> Str(<<"N">>)
            [] c = "RACK" -> Str(<<"T", "L">>)
            [] c = "RACK NO (1st digit)" -> PyInt(0)
            [] c = "RACK NO (2nd digit)" -> PyInt(1)
            [] c = "Trolley No" -> Str(<<"T", "1">>)
            [] c = "PARTNO" -> Str(<<"P", "1">>)
            [] c = "PART DESCRIPTION" -> Str(<<"D">>)
            [] c = "Qty / Veh" -> PyInt(5)
            [] c = "Max Size" -> PyFloat(5, 0)
            [] c = "Qty /Trolley" -> PyFloat(2, 5)
            [] OTHER -> Str(<<"L">>)],
       [c \in SheetCols |->
          CASE c = "STATION NO" -> Str(<<"1">>)
            [] c = "STATION NAME" -> Str(<<"B">>)
            [] c = "BUS MODEL" -> Str(<<"M">>)
            [] c = "RACK" -> Str(<<"T", "L">>)
            [] c = "RACK NO (1st digit)" -> PyInt(0)
            [] c = "RACK NO (2nd digit)" -> PyInt(1)
            [] c = "Trolley No" -> Str(<<"T", "1">>)
            [] c = "PARTNO" -> Str(<<"P", "2">>)
            [] c = "PART DESCRIPTION" -> Str(<<"D">>)
            [] c = "Qty / Veh" -> PyInt(12)
            [] c = "Max Size" -> NaN
            [] c = "Qty /Trolley" -> PyInt(10)
            [] OTHER -> Str(<<"L">>)],
       [c \in SheetCols |->
          CASE c = "STATION NO" -> Str(<<"2">>)
            [] c = "STATION NAME" -> NaN
            [] c = "BUS MODEL" -> Str(<<"M">>)
            [] c = "RACK" -> Str(<<"T", "L">>)
            [] c = "RACK NO (1st digit)" -> PyFloat(1, 0)
            [] c = "RACK NO (2nd digit)" -> PyInt(2)
            [] c = "Trolley No" -> NaN
            [] c = "PARTNO" -> Str(<<"P", "3">>)
            [] c = "PART DESCRIPTION" -> NaN
            [] c = "Qty / Veh" -> PyFloat(5, 0)
            [] c = "Max Size" -> PyInt(3)
            [] c = "Qty /Trolley" -> PyInt(4)
            [] OTHER -> Str(<<"L">>)],
       [c \in SheetCols |->
          CASE c = "STATION NO" -> Str(<<"1", "0">>)
            [] c = "STATION NAME" -> Str(<<"A">>)
            [] c = "BUS MODEL" -> Str(<<"N">>)
            [] c = "RACK" -> Str(<<"T", "R">>)
            [] c = "RACK NO (1st digit)" -> PyInt(1)
            [] c = "RACK NO (2nd digit)" -> NaN
            [] c = "Trolley No" -> Str(<<"T", "2">>)
            [] c = "PARTNO" -> Str(<<"P", "1">>)
            [] c = "PART DESCRIPTION" -> Str(<<"D">>)
            [] c = "Qty / Veh" -> PyInt(5)
            [] c = "Max Size" -> PyInt(7)
            [] c = "Qty /Trolley" -> PyInt(4)
            [] OTHER -> NaN] >>

\* The sheets of 1 to MaxRows lines over a schema.
Sheets ==
    { [kind |-> "sheet",
       cols |-> schema,
       rows |-> [i \in DOMAIN picks |-> [c \in schema |-> RowPool[picks[i]][c]]]] :
      schema \in Schemas,
      picks \in UNION {[1..n -> DOMAIN RowPool] : n \in 1..MaxRows} }

NoFile == [kind |-> "none", cols |-> {}, rows |-> <<>>]

\* An upload that pd.read_excel cannot read.
UnreadableFile == [kind |-> "unreadable", cols |-> {}, rows |-> <<>>]

----------------------------------------------------------------------------
(* One run of the script *)

NoDf == [cols |-> {}, rows |-> <<>>]

NoPdf == [built |-> FALSE, elements |-> <<>>, pages |-> <<>>]

NoError == [kind |-> "none", missing |-> <<>>]

\* What one run of the script from top to bottom leaves on the page, for
\* the two uploads and clicked = the user has pressed Generate PDF:
\*   pc        where the run ended
\*   error     the st.error message shown, if any
\*   df        the DataFrame at the end of the run
\*   grouped   the (name, group) pairs of the grouped dict
\*   button    whether the Generate PDF button is on the page
\*   pdf       the document built by create_pdf
\*   download  whether the download button is on the page
Script(file, logo, clicked) ==
    IF ~(file.kind # "none" /\ logo)
    THEN [pc |-> "idle", error |-> NoError, df |-> NoDf, grouped |-> <<>>,
          button |-> FALSE, pdf |-> NoPdf, download |-> FALSE]
    ELSE IF file.kind = "unreadable"
    THEN [pc |-> "exception",
          error |-> [kind |-> "exception", missing |-> <<>>],
          df |-> NoDf, grouped |-> <<>>,
          button |-> FALSE, pdf |-> NoPdf, download |-> FALSE]
    ELSE LET df0 == read_excel(file)
             missing == missing_cols(df0)
         IN IF missing # <<>>
            THEN [pc |-> "rejected",
                  error |-> [kind |-> "missing", missing |-> missing],
                  df |-> df0, grouped |-> <<>>,
                  button |-> FALSE, pdf |-> NoPdf, download |-> FALSE]
            ELSE LET df1 == preprocess(df0)
                     grouped_data == build_grouped(df1)
                     \* st.button("Generate PDF") is True in the run that
                     \* a click on it triggers.
                     pressed == clicked
                 IN [pc |-> IF pressed THEN "generated" ELSE "ready",
                     error |-> NoError,
                     df |-> df1, grouped |-> grouped_data,
                     button |-> TRUE,
                     pdf |-> IF pressed
                             THEN create_pdf(TrolleyPDF(TRUE), grouped_data)
                             ELSE NoPdf,
                     download |-> pressed]

----------------------------------------------------------------------------
(* The application: the widgets and the page of the last run *)

VARIABLES uploaded_file, top_logo_file, pc, error, df, grouped, button, pdf,
          download

vars == <<uploaded_file, top_logo_file, pc, error, df, grouped, button, pdf,
          download>>

\* The page becomes that of a new run.
Rerun(file, logo, clicked) ==
    LET r == Script(file, logo, clicked)
    IN /\ pc' = r.pc
       /\ error' = r.error
       /\ df' = r.df
       /\ grouped' = r.grouped
       /\ button' = r.button
       /\ pdf' = r.pdf
       /\ download' = r.download

\* The application is opened: nothing is uploaded.
Init ==
    /\ uploaded_file = NoFile
    /\ top_logo_file = FALSE
    /\ pc = "idle"
    /\ error = NoError
    /\ df = NoDf
    /\ grouped = <<>>
    /\ button = FALSE
    /\ pdf = NoPdf
    /\ download = FALSE

\* The user picks a sheet in the first uploader, which is empty.
UploadExcel ==
    \E file \in Sheets :
        /\ uploaded_file.kind = "none"
        /\ uploaded_file' = file
        /\ UNCHANGED top_logo_file
        /\ Rerun(file, top_logo_file, FALSE)

\* The user picks a file that is no readable workbook.
UploadUnreadable ==
    /\ uploaded_file.kind = "none"
    /\ uploaded_file' = UnreadableFile
    /\ UNCHANGED top_logo_file
    /\ Rerun(UnreadableFile, top_logo_file, FALSE)

\* The user removes the file from the first uploader.
RemoveExcel ==
    /\ uploaded_file.kind # "none"
    /\ uploaded_file' = NoFile
    /\ UNCHANGED top_logo_file
    /\ Rerun(NoFile, top_logo_file, FALSE)

\* The user picks an image in the second uploader.
UploadLogo ==
    /\ ~top_logo_file
    /\ top_logo_file' = TRUE
    /\ UNCHANGED uploaded_file
    /\ Rerun(uploaded_file, TRUE, FALSE)

\* The user removes the image.
RemoveLogo ==
    /\ top_logo_file
    /\ top_logo_file' = FALSE
    /\ UNCHANGED uploaded_file
    /\ Rerun(uploaded_file, FALSE, FALSE)

\* The user presses Generate PDF, which is possible when the last run put
\* the button on the page.
ClickGenerate ==
    /\ button
    /\ UNCHANGED <<uploaded_file, top_logo_file>>
    /\ Rerun(uploaded_file, top_logo_file, TRUE)

Next ==
    \/ UploadExcel
    \/ UploadUnreadable
    \/ RemoveExcel
    \/ UploadLogo
    \/ RemoveLogo
    \/ ClickGenerate

Spec == Init /\ [][Next]_vars

----------------------------------------------------------------------------
(* Properties *)

\* The run went past the column check: trolley ids, groups and the
\* Generate PDF button exist.
Accepted == pc \in {"ready", "generated"}

\* The sheet as read, before any preprocessing.
AsRead == read_excel(uploaded_file)

\* The numeric-cleaning function of the specification: a trailing ".0" of
\* the string form is removed.
clean(s) ==
    IF Len(s) >= 2 /\ s[Len(s) - 1] = "." /\ s[Len(s)] = "0"
    THEN SubSeq(s, 1, Len(s) - 2)
    ELSE s

\* The first row of group g: every row of the group has its key fields.
FirstRow(g) == grouped[g].group.rows[1]

\* C1: every page's info block shows the station number, trolley id,
\* station name and model of the group whose parts table is on that page.
C1_InfoBlockOfOwnGroup ==
    \A p \in DOMAIN pdf.pages :
        LET page == pdf.pages[p]
            own == FirstRow(page.element).cells
        IN /\ page.header.station_no = PyStr(own["STATION NO"])
           /\ page.header.trolley_no = PyStr(own["TROLLEY_ID"])
           /\ page.header.station_name = PyStr(own["STATION NAME"])
           /\ page.header.model = PyStr(own["BUS MODEL"])

\* C2: grouping is a partition: every row of the accepted sheet is in
\* exactly one group, at exactly one position, and the groups hold nothing
\* else.
C2_GroupingIsPartition ==
    Accepted =>
        /\ Len(df.rows) = Len(uploaded_file.rows)
        /\ \A i \in DOMAIN df.rows :
              Cardinality({gk \in {<<g, k>> : g \in DOMAIN grouped, k \in 1..MaxRows + 1} :
                             /\ gk[2] <= Len(grouped[gk[1]].group.rows)
                             /\ grouped[gk[1]].group.rows[gk[2]] = df.rows[i]}) = 1
        /\ \A g \in DOMAIN grouped : \A k \in DOMAIN grouped[g].group.rows :
              \E i \in DOMAIN df.rows : grouped[g].group.rows[k] = df.rows[i]
        /\ \A i, j \in DOMAIN df.rows : i # j => df.rows[i].idx # df.rows[j].idx

\* C2 witness: an accepted sheet with a missing station name in one row is
\* split into two or more groups.
C2_Witness ==
    /\ Accepted
    /\ Len(grouped) >= 2
    /\ "STATION NAME" \in uploaded_file.cols
    /\ \E i \in DOMAIN uploaded_file.rows :
          uploaded_file.rows[i]["STATION NAME"].t = "nan"

\* C3: with the three rack columns present, every row's trolley id is
\* clean(rack) + "-" + clean(frag1) + clean(frag2).
C3_TrolleyIdIsCleanedConcat ==
    (Accepted /\ RackCols \subseteq uploaded_file.cols) =>
        \A k \in DOMAIN df.rows :
            LET src == AsRead.rows[df.rows[k].idx + 1].cells
            IN df.rows[k].cells["TROLLEY_ID"] =
                 Str(clean(PyStr(src["RACK"])) \o <<"-">>
                     \o clean(PyStr(src["RACK NO (1st digit)"]))
                     \o clean(PyStr(src["RACK NO (2nd digit)"])))

\* The sheet has neither the three rack columns nor a trolley-number column.
NoTrolleySource ==
    /\ ~(RackCols \subseteq uploaded_file.cols)
    /\ "Trolley No" \notin uploaded_file.cols

\* C4 as stated: without a trolley source every row's trolley id is the
\* literal "UNKNOWN".
C4_Original ==
    (Accepted /\ NoTrolleySource) =>
        \A k \in DOMAIN df.rows :
            df.rows[k].cells["TROLLEY_ID"] = Str(<<"U", "N", "K", "N", "O", "W", "N">>)

\* C4 amended: without a trolley source every row's trolley id is the
\* literal "Unknown".
C4_TrolleyIdIsUnknown ==
    (Accepted /\ NoTrolleySource) =>
        \A k \in DOMAIN df.rows :
            df.rows[k].cells["TROLLEY_ID"] = Str(<<"U", "n", "k", "n", "o", "w", "n">>)

\* C4 witness: an accepted sheet of two or more rows with only part of the
\* rack columns and no trolley-number column.
C4_Witness ==
    /\ Accepted
    /\ NoTrolleySource
    /\ "RACK" \in uploaded_file.cols
    /\ Len(df.rows) >= 2

\* C5: the data rows of every group's parts table carry the serials
\* 1, 2, ..., n, n being the number of rows of the group.
C5_SerialsRestartPerGroup ==
    pdf.built =>
        /\ Len(pdf.elements) = Len(grouped)
        /\ \A e \in DOMAIN pdf.elements :
              /\ Len(pdf.elements[e].rows) = Len(grouped[e].group.rows)
              /\ \A k \in DOMAIN pdf.elements[e].rows :
                    pdf.elements[e].rows[k][1] = Digits(k)

\* C5 witness: a document in which a table of two or more rows is followed
\* by the table of another group.
C5_Witness ==
    /\ pdf.built
    /\ \E e \in DOMAIN pdf.elements :
          /\ e + 1 \in DOMAIN pdf.elements
          /\ Len(pdf.elements[e].rows) >= 2

\* Group g comes strictly before group h in the lexicographic order of the
\* fields taken in the given order.
Before(g, h, order) ==
    TupleLess(KeyOf(FirstRow(g), order), KeyOf(FirstRow(h), order))

\* The pages of the document follow the order of the groups.
PagesInGroupOrder ==
    \A p, q \in DOMAIN pdf.pages :
        p < q => pdf.pages[p].element <= pdf.pages[q].element

\* C6 as stated: groups are iterated, and their pages emitted, in
\* lexicographic order of (station number, trolley id, model, station name).
C6_Original ==
    /\ PagesInGroupOrder
    /\ Accepted =>
          \A g, h \in DOMAIN grouped :
              g < h => Before(g, h, <<"STATION NO", "TROLLEY_ID",
                                      "BUS MODEL", "STATION NAME">>)

\* C6 amended: groups are iterated, and their pages emitted, in
\* lexicographic order of (station number, trolley id, station name, model).
C6_GroupOrder ==
    /\ PagesInGroupOrder
    /\ Accepted =>
          \A g, h \in DOMAIN grouped :
              g < h => Before(g, h, <<"STATION NO", "TROLLEY_ID",
                                      "STATION NAME", "BUS MODEL">>)

\* C6 witness: two groups with the same station number and trolley id, the
\* first with the smaller station name and the larger model.
C6_Witness ==
    /\ Accepted
    /\ \E g, h \in DOMAIN grouped :
          /\ g < h
          /\ FirstRow(g).cells["STATION NO"] = FirstRow(h).cells["STATION NO"]
          /\ FirstRow(g).cells["TROLLEY_ID"] = FirstRow(h).cells["TROLLEY_ID"]
          /\ StrLess(FirstRow(g).cells["STATION NAME"].s,
                     FirstRow(h).cells["STATION NAME"].s)
          /\ StrLess(FirstRow(h).cells["BUS MODEL"].s,
                     FirstRow(g).cells["BUS MODEL"].s)

\* The required columns the uploaded sheet lacks, in the order of the list.
LackedBy(file) ==
    SelectSeq(<<"STATION NO", "BUS MODEL", "PARTNO", "PART DESCRIPTION",
                "Qty / Veh", "LOCATION">>, LAMBDA c : c \notin file.cols)

\* C7: a sheet lacking required columns is rejected with an error listing
\* exactly those columns, before any trolley id, group or document.
C7_MissingColumnsRejected ==
    (uploaded_file.kind = "sheet" /\ LackedBy(uploaded_file) # <<>>) =>
        /\ error = [kind |-> "missing", missing |-> LackedBy(uploaded_file)]
        /\ "TROLLEY_ID" \notin df.cols
        /\ grouped = <<>>
        /\ ~pdf.built
        /\ ~download

\* The columns the specification calls required.
SpecRequired == {"STATION NO", "BUS MODEL", "PARTNO", "PART DESCRIPTION",
                 "LOCATION"}

\* In every parts table the cell of an absent column is the empty string.
AbsentRendersEmpty(col, pos) ==
    col \notin uploaded_file.cols =>
        \A e \in DOMAIN pdf.elements : \A k \in DOMAIN pdf.elements[e].rows :
            pdf.elements[e].rows[k][pos] = <<>>

\* C8 as stated: a sheet with station number, model, part number, part
\* description and location is not rejected for missing columns, and an
\* absent optional column renders as the empty string.
C8_Original ==
    /\ (uploaded_file.kind = "sheet" /\ SpecRequired \subseteq uploaded_file.cols)
          => error.kind # "missing"
    /\ AbsentRendersEmpty("Qty / Veh", 4)
    /\ AbsentRendersEmpty("Max Size", 5)
    /\ AbsentRendersEmpty("Qty /Trolley", 6)

\* C8 amended: a sheet with those five columns and the quantity-per-vehicle
\* column is not rejected for missing columns, a sheet without the
\* quantity-per-vehicle column is never accepted, and an absent Max Size or
\* Qty /Trolley column renders as the empty string.
C8_AcceptedWithoutOptional ==
    /\ (/\ uploaded_file.kind = "sheet"
        /\ SpecRequired \cup {"Qty / Veh"} \subseteq uploaded_file.cols)
          => error.kind # "missing"
    /\ "Qty / Veh" \notin uploaded_file.cols => ~Accepted
    /\ AbsentRendersEmpty("Max Size", 5)
    /\ AbsentRendersEmpty("Qty /Trolley", 6)

\* C8 witness: a document built from a sheet without the Max Size and
\* Qty /Trolley columns.
C8_Witness ==
    /\ pdf.built
    /\ Len(pdf.pages) >= 1
    /\ "Max Size" \notin uploaded_file.cols
    /\ "Qty /Trolley" \notin uploaded_file.cols

\* C9: with a valid sheet and no top-right logo, the run in which Generate
\* is pressed builds the document, its pages without the logo.
C9_GeneratesWithoutLogo ==
    (/\ uploaded_file.kind = "sheet"
     /\ LackedBy(uploaded_file) = <<>>
     /\ ~top_logo_file) =>
        LET run == Script(uploaded_file, top_logo_file, TRUE)
        IN /\ run.pdf.built
           /\ run.download
           /\ Len(run.pdf.pages) >= 1
           /\ \A p \in DOMAIN run.pdf.pages : ~run.pdf.pages[p].header.logo

\* C10: the Qty/Vehicle, Max Size and Qty/Trolley cells of every data row
\* are the numeric-cleaned form of the row's value.
C10_QuantitiesCleaned ==
    pdf.built =>
        \A e \in DOMAIN pdf.elements : \A k \in DOMAIN pdf.elements[e].rows :
            LET row == grouped[e].group.rows[k]
                out == pdf.elements[e].rows[k]
            IN /\ out[4] = clean(row_get(row, "Qty / Veh"))
               /\ out[5] = clean(row_get(row, "Max Size"))
               /\ out[6] = clean(row_get(row, "Qty /Trolley"))

====
